---------------------------- MODULE Spec2Model ----------------------------
(***************************************************************************)
(* A model of the trading server: the request signer, the authenticated   *)
(* request dispatcher, the exchange operations, the bulk operations, the   *)
(* price-movement strategy, the HTTP routes and the chat commands of       *)
(* src/unnamed/part_000, together with the signer and the dispatcher of    *)
(* src/index.ts.                                                           *)
(*                                                                         *)
(* A JavaScript object is a sequence of <<key, value>> pairs with distinct *)
(* keys, in insertion order.  A primitive value is a record [type, text],  *)
(* text being what String(value) yields.  Strings are TLA+ strings and     *)
(* string concatenation is \o.                                             *)
(***************************************************************************)
EXTENDS Integers, Sequences, FiniteSets, TLC

VARIABLES
    sigParams,   \* Signer run: the parameter object handed to generateSignature
    sigSecret,   \* Signer run: the secret key
    sigJs,       \* Signer run: result of part_000's generateSignature, or NotRun
    sigTs,       \* Signer run: result of index.ts's generateSignature, or NotRun
    clock,       \* the last value Date.now() returned
    entry,       \* the invocation being served: who called, which operation, its arguments
    pc,          \* where that invocation is suspended: idle, an await, or done
    reqs,        \* the makeRequest invocations of this invocation, in call order
    http,        \* the requests handed to axios, in issue order
    fan,         \* bulk operation: the makeRequest invocations given to Promise.all, in list order
    arrivals,    \* the axios requests that were answered, in arrival order
    strat,       \* strategy: currentPrice, kept across the second await
    opResult,    \* the promise returned by the operation
    httpRes,     \* HTTP route: the response written, if any
    unhandled,   \* the rejections that reached the process-level unhandledRejection hook
    ctxMessage,  \* chat command: the words of ctx.message.text, split at the spaces
    replies      \* chat command: the ctx.reply calls made, in call order

sigVars == <<sigParams, sigSecret, sigJs, sigTs>>

runVars == <<clock, entry, pc, reqs, http, fan, arrivals, strat, opResult, httpRes, unhandled,
             ctxMessage, replies>>

vars == <<sigParams, sigSecret, sigJs, sigTs,
          clock, entry, pc, reqs, http, fan, arrivals, strat, opResult, httpRes, unhandled,
          ctxMessage, replies>>

-----------------------------------------------------------------------------
(* Bounds of the model *)

\* largest number of entries of a parameter object handed to the Signer
MaxSignParams == 3

\* largest number of positions or orders the exchange lists
MaxEntries == 2

\* largest value of Date.now(), counted in milliseconds from the start
MaxClock == 2

-----------------------------------------------------------------------------
(* Primitive values and objects *)

Str(t) == [type |-> "string", text |-> t]

Num(t) == [type |-> "number", text |-> t]

\* the JavaScript value ""
EmptyString == Str("")

EmptyObject == << >>

\* Object.keys(obj): the keys in insertion order (no key of this program is
\* integer-like, so no key is moved to the front)
ObjectKeys(obj) == [i \in 1..Len(obj) |-> obj[i][1]]

KeySet(obj) == {obj[i][1] : i \in 1..Len(obj)}

HasKey(obj, k) == k \in KeySet(obj)

\* obj[k]
Get(obj, k) == obj[CHOOSE i \in 1..Len(obj) : obj[i][1] = k][2]

\* obj[k] = v: an existing key keeps its place, a new key goes last
Put(obj, k, v) ==
    IF HasKey(obj, k)
    THEN [i \in 1..Len(obj) |-> IF obj[i][1] = k THEN <<k, v>> ELSE obj[i]]
    ELSE Append(obj, <<k, v>>)

\* the set of key/value pairs of obj, insertion order forgotten
Pairs(obj) == {obj[i] : i \in 1..Len(obj)}

\* { ...a, ...b }
RECURSIVE Spread(_, _)
Spread(a, b) ==
    IF b = << >> THEN a
    ELSE Spread(Put(a, Head(b)[1], Head(b)[2]), Tail(b))

\* obj without key k
RECURSIVE Without(_, _)
Without(obj, k) ==
    IF obj = << >> THEN << >>
    ELSE IF Head(obj)[1] = k THEN Without(Tail(obj), k)
    ELSE <<Head(obj)>> \o Without(Tail(obj), k)

-----------------------------------------------------------------------------
(* Signer *)

\* every parameter key of the program, ascending by UTF-16 code unit, the
\* order of Array.prototype.sort() without a comparator
KeyOrder ==
    << "activationPrice", "apiKey", "callbackRate", "interval", "limit",
       "orderId", "orderType", "positionSide", "price", "quantity", "side",
       "signature", "stopPrice", "symbol", "timestamp", "type" >>

KeyRank(k) == CHOOSE i \in 1..Len(KeyOrder) : KeyOrder[i] = k

\* insert key k into the ascending sequence s
RECURSIVE InsertSorted(_, _)
InsertSorted(s, k) ==
    IF s = << >> THEN <<k>>
    ELSE IF KeyRank(k) < KeyRank(Head(s)) THEN <<k>> \o s
    ELSE <<Head(s)>> \o InsertSorted(Tail(s), k)

\* a faulty variant of SortKeys: the keys are left in insertion order
SortKeys_unsorted(keys) == keys

\* keys.sort()
RECURSIVE SortKeys(_)
SortKeys(keys) ==
    IF keys = << >> THEN << >>
    ELSE InsertSorted(SortKeys(Tail(keys)), Head(keys))

\* encodeURIComponent over the texts of the model: every text but the ones
\* listed is made of unreserved characters only and is left as it is
encodeURIComponent(text) ==
    CASE text = "a b" -> "a%20b"
      [] text = "1&x=2" -> "1%26x%3D2"
      [] OTHER -> text

\* the hex digest of HMAC-SHA256, kept symbolic: equal digests exactly for
\* equal messages under equal keys
HmacSHA256(message, key) == "hmac-sha256(" \o key \o "," \o message \o ")"

\* entries.join("&") of already rendered entries
RECURSIVE Join(_)
Join(parts) ==
    IF parts = << >> THEN ""
    ELSE IF Len(parts) = 1 THEN Head(parts)
    ELSE Head(parts) \o "&" \o Join(Tail(parts))

\* part_000: the reduce over the sorted keys that keeps the entries whose
\* value is not ""
RECURSIVE OrderedParams(_, _)
OrderedParams(params, sortedKeys) ==
    IF sortedKeys = << >> THEN EmptyObject
    ELSE LET rest == OrderedParams(params, SubSeq(sortedKeys, 1, Len(sortedKeys) - 1))
             key  == sortedKeys[Len(sortedKeys)]
         IN  IF Get(params, key) /= EmptyString
             THEN Put(rest, key, Get(params, key))
             ELSE rest

\* part_000: the canonical string that is fed to the HMAC
QueryString(params) ==
    LET orderedParams == OrderedParams(params, SortKeys(ObjectKeys(params)))
    IN  Join([i \in 1..Len(orderedParams) |->
                orderedParams[i][1] \o "=" \o encodeURIComponent(orderedParams[i][2].text)])

\* part_000: generateSignature(params, secretKey)
generateSignature(params, secretKey) == HmacSHA256(QueryString(params), secretKey)

\* index.ts: the reduce over the sorted keys, which keeps every entry
RECURSIVE OrderedParamsTs(_, _)
OrderedParamsTs(params, sortedKeys) ==
    IF sortedKeys = << >> THEN EmptyObject
    ELSE LET rest == OrderedParamsTs(params, SubSeq(sortedKeys, 1, Len(sortedKeys) - 1))
             key  == sortedKeys[Len(sortedKeys)]
         IN  Put(rest, key, Get(params, key))

\* index.ts: the canonical string, values not percent-encoded
QueryStringTs(params) ==
    LET orderedParams == OrderedParamsTs(params, SortKeys(ObjectKeys(params)))
    IN  Join([i \in 1..Len(orderedParams) |->
                orderedParams[i][1] \o "=" \o orderedParams[i][2].text])

\* index.ts: generateSignature(params, secretKey)
generateSignatureTs(params, secretKey) == HmacSHA256(QueryStringTs(params), secretKey)

-----------------------------------------------------------------------------
(* Configuration, exchange data, errors and promise outcomes *)

API_KEY == "api-key"

SECRET_KEY == "secret"

BASE_URL == "https://open-api.bingx.com"

\* the result slot of a Signer run that has not happened
NotRun == "not run"

\* the value undefined
Undefined == [type |-> "undefined", text |-> "undefined"]

Symbols == {Str("BTC-USDT"), Str("ETH-USDT")}

\* the positions and the orders the exchange can list; a bulk operation
\* reads symbol and positionSide of a position, symbol and orderId of an order
ListEntries ==
    { [symbol |-> Str("BTC-USDT"), positionSide |-> Str("LONG"),  orderId |-> Str("1001")],
      [symbol |-> Str("BTC-USDT"), positionSide |-> Str("SHORT"), orderId |-> Str("1002")],
      [symbol |-> Str("ETH-USDT"), positionSide |-> Str("LONG"),  orderId |-> Str("1003")] }

\* the lists of at most n entries, none listed twice
Lists(n) ==
    UNION {
        {l \in [1..m -> ListEntries] : \A i, j \in 1..m : i /= j => l[i] /= l[j]}
        : m \in 0..n }

\* the texts the exchange can give as a price or as a candle's close
PriceTexts == {"100", "101", "n/a"}

\* the order ids the exchange can name in its answer to a trade call
OrderIds == {"7001", "7002"}

\* a decoded JSON body of the exchange: what kind of answer it is, its data
\* array (list answers), its price or close (price and candle answers) or
\* the order id it names (trade answers)
Body(kind, list, price) == [kind |-> kind, list |-> list, price |-> price]

NoBody == Body("none", << >>, "")

ErrorBody == Body("error", << >>, "")

\* the bodies the exchange can answer an endpoint with on success
ResponseBodies(endpoint) ==
    CASE endpoint \in {"/openApi/contract/v1/allPosition", "/openApi/contract/v1/allOrders"}
            -> {Body("list", l, "") : l \in Lists(MaxEntries)}
      [] endpoint \in {"/openApi/swap/v2/quote/price", "/openApi/swap/v2/quote/klines"}
            -> {Body("quote", << >>, p) : p \in PriceTexts}
      [] endpoint \in {"/openApi/swap/v2/trade/closePosition", "/openApi/swap/v2/trade/cancelOrder",
                        "/openApi/swap/v2/trade/order", "/openApi/contract/v1/trade/order"}
            -> {Body("ok", << >>, id) : id \in OrderIds}
      [] OTHER -> {Body("ok", << >>, "")}

\* an Error object: hasResponse and data stand for error.response and
\* error.response.data; no error of this program carries a statusCode
Err(name, message, hasResponse, data) ==
    [name |-> name, message |-> message, hasResponse |-> hasResponse, data |-> data]

NoError == Err("", "", FALSE, NoBody)

\* axios rejects with a response (non-2xx) or without one (transport failure)
AxiosErrorResponse == Err("AxiosError", "Request failed with status code 400", TRUE, ErrorBody)

AxiosErrorNoResponse == Err("AxiosError", "Network Error", FALSE, NoBody)

AxiosErrors == {AxiosErrorResponse, AxiosErrorNoResponse}

\* thrown by evaluating next(error) where no next is in scope
ReferenceErrorNext == Err("ReferenceError", "next is not defined", FALSE, NoBody)

\* thrown by evaluating error.response.data where error.response is undefined
TypeErrorData ==
    Err("TypeError", "Cannot read properties of undefined (reading 'data')", FALSE, NoBody)

\* a JavaScript result value: undefined, null, one body, or an array of bodies
JUndefined == [t |-> "undefined", body |-> NoBody, items |-> << >>]

JNull == [t |-> "null", body |-> NoBody, items |-> << >>]

JBody(b) == [t |-> "body", body |-> b, items |-> << >>]

JArray(bs) == [t |-> "array", body |-> NoBody, items |-> bs]

\* the state of a promise
Pending == [state |-> "pending", value |-> JUndefined, error |-> NoError]

Resolved(v) == [state |-> "resolved", value |-> v, error |-> NoError]

Rejected(e) == [state |-> "rejected", value |-> JUndefined, error |-> e]

\* config.params / config.data: set to an object, or not set
Some(obj) == [set |-> TRUE, obj |-> obj]

None == [set |-> FALSE, obj |-> EmptyObject]

-----------------------------------------------------------------------------
(* Request Dispatcher *)

\* a faulty variant of SignedInput: the timestamp is left out of what is signed
SignedInput_paramsOnly(method, params, fullParams, timestamp) == params

\* part_000: the object handed to generateSignature
SignedInput(method, params, fullParams, timestamp) ==
    IF Len(ObjectKeys(params)) = 0 /\ method = "GET"
    THEN << <<"timestamp", timestamp>> >>
    ELSE fullParams

\* a faulty variant of AxiosCalls: the request is issued a second time
AxiosCalls_twice(config) == <<config, config>>

\* the requests one makeRequest invocation hands to axios
AxiosCalls(config) == <<config>>

\* a faulty variant of makeRequest: the parameters travel in the query string
\* whatever the method
makeRequest_queryOnly(method, endpoint, params, now) ==
    LET timestamp  == Num(ToString(now))
        fullParams == Put(Spread(EmptyObject, params), "timestamp", timestamp)
        signed     == SignedInput(method, params, fullParams, timestamp)
        sent       == Put(fullParams, "signature", Str(generateSignature(signed, SECRET_KEY)))
        config     == [method  |-> method,
                       url     |-> BASE_URL \o endpoint,
                       headers |-> << <<"X-BX-APIKEY", Str(API_KEY)>> >>,
                       params  |-> Some(sent),
                       data    |-> None]
    IN  [req   |-> [file |-> "part_000", method |-> method, endpoint |-> endpoint,
                    params |-> params, signed |-> signed, result |-> Pending],
         calls |-> AxiosCalls(config)]

\* part_000: makeRequest(method, endpoint, params) up to its await, with
\* Date.now() = now: the invocation and the requests it hands to axios
makeRequest(method, endpoint, params, now) ==
    LET timestamp  == Num(ToString(now))
        fullParams == Put(Spread(EmptyObject, params), "timestamp", timestamp)
        signed     == SignedInput(method, params, fullParams, timestamp)
        sent       == Put(fullParams, "signature", Str(generateSignature(signed, SECRET_KEY)))
        config     == [method  |-> method,
                       url     |-> BASE_URL \o endpoint,
                       headers |-> << <<"X-BX-APIKEY", Str(API_KEY)>> >>,
                       params  |-> IF method = "GET" THEN Some(sent) ELSE None,
                       data    |-> IF method = "GET" THEN None ELSE Some(sent)]
    IN  [req   |-> [file |-> "part_000", method |-> method, endpoint |-> endpoint,
                    params |-> params, signed |-> signed, result |-> Pending],
         calls |-> AxiosCalls(config)]

\* index.ts: makeRequest(method, endpoint, params) up to its await
makeRequestTs(method, endpoint, params, now) ==
    LET timestamp  == Num(ToString(now))
        fullParams == Put(Put(Spread(EmptyObject, params), "timestamp", timestamp),
                          "apiKey", Str(API_KEY))
        signed     == fullParams
        sent       == Put(fullParams, "signature", Str(generateSignatureTs(signed, SECRET_KEY)))
        config     == [method  |-> method,
                       url     |-> BASE_URL \o endpoint,
                       headers |-> EmptyObject,
                       params  |-> Some(sent),
                       data    |-> None]
    IN  [req   |-> [file |-> "index.ts", method |-> method, endpoint |-> endpoint,
                    params |-> params, signed |-> signed, result |-> Pending],
         calls |-> AxiosCalls(config)]

\* part_000: the catch block of makeRequest: logs error.response.data or
\* error.message and throws the error it caught; what it throws
makeRequestCatch(error) == error

\* index.ts: the catch block of makeRequest: evaluating error.response.data
\* throws when there is no response, otherwise the caught error is thrown
makeRequestCatchTs(error) ==
    IF error.hasResponse THEN error ELSE TypeErrorData

\* what a makeRequest invocation of the given file settles to when axios
\* answers with body b (ok) or rejects with error e
RequestSettles(file, ok, b, e) ==
    IF ok THEN Resolved(JBody(b))
    ELSE IF file = "part_000" THEN Rejected(makeRequestCatch(e))
    ELSE Rejected(makeRequestCatchTs(e))

-----------------------------------------------------------------------------
(* Exchange Operations: the arguments of the makeRequest call each makes *)

Call(method, endpoint, params) == [method |-> method, endpoint |-> endpoint, params |-> params]

\* parseFloat over the texts of the model: the longest numeric prefix, or NaN
parseFloat(text) ==
    CASE text \in {"0.01", "5", "100", "101", "-1"} -> text
      [] text = "5x" -> "5"
      [] OTHER -> "NaN"

\* the number a numeric text denotes, in hundredths
Hundredths(text) ==
    CASE text = "0.01" -> 1
      [] text = "5" -> 500
      [] text = "100" -> 10000
      [] text = "101" -> 10100
      [] text = "-1" -> -100

IsNaN(text) == text = "NaN"

getAccountBalance == Call("GET", "/openApi/swap/v2/user/balance", EmptyObject)

getOpenPositions == Call("GET", "/openApi/contract/v1/allPosition", EmptyObject)

getPendingOrders == Call("GET", "/openApi/contract/v1/allOrders", EmptyObject)

closePosition(symbol, positionSide) ==
    Call("POST", "/openApi/swap/v2/trade/closePosition",
         << <<"symbol", symbol>>, <<"positionSide", positionSide>> >>)

cancelOrder(symbol, orderId) ==
    Call("POST", "/openApi/swap/v2/trade/cancelOrder",
         << <<"symbol", symbol>>, <<"orderId", orderId>> >>)

setTrailingStop(symbol, activationPrice, callbackRate) ==
    Call("POST", "/openApi/swap/v2/trade/order",
         << <<"symbol", symbol>>, <<"type", Str("TRAILING_STOP_MARKET")>>,
            <<"activationPrice", activationPrice>>, <<"callbackRate", callbackRate>> >>)

setStopLoss(symbol, stopPrice) ==
    Call("POST", "/openApi/swap/v2/trade/order",
         << <<"symbol", symbol>>, <<"type", Str("STOP_MARKET")>>,
            <<"stopPrice", stopPrice>> >>)

setTakeProfit(symbol, stopPrice) ==
    Call("POST", "/openApi/swap/v2/trade/order",
         << <<"symbol", symbol>>, <<"type", Str("TAKE_PROFIT_MARKET")>>,
            <<"stopPrice", stopPrice>> >>)

placeMarketOrder(symbol, side, quantity) ==
    Call("POST", "/openApi/contract/v1/trade/order",
         << <<"symbol", symbol>>, <<"side", side>>, <<"orderType", Str("MARKET")>>,
            <<"quantity", Num(parseFloat(quantity.text))>> >>)

placeLimitOrder(symbol, side, quantity, price) ==
    Call("POST", "/openApi/swap/v2/trade/order",
         << <<"symbol", symbol>>, <<"side", side>>, <<"type", Str("LIMIT")>>,
            <<"quantity", Num(parseFloat(quantity.text))>>, <<"price", price>> >>)

\* the makeRequest call of checkServerTime
getServerTime == Call("GET", "/openApi/swap/v2/time", EmptyObject)

\* checkServerTime: the try block returns nothing and the catch block only
\* logs, so the promise resolves with undefined whatever makeRequest did
checkServerTime(result) == Resolved(JUndefined)

\* the two makeRequest calls the routes and the strategy make themselves
getPositionsRoute == Call("GET", "/openApi/swap/v2/user/positions", EmptyObject)

getPrice(symbol) == Call("GET", "/openApi/swap/v2/quote/price", << <<"symbol", symbol>> >>)

getKlines(symbol) ==
    Call("GET", "/openApi/swap/v2/quote/klines",
         << <<"symbol", symbol>>, <<"interval", Str("1m")>>, <<"limit", Num("2")>> >>)

\* the non-bulk operations, and the call each makes for its arguments
NonBulkOps ==
    {"getAccountBalance", "getOpenPositions", "getPendingOrders", "closePosition",
     "cancelOrder", "setTrailingStop", "setStopLoss", "setTakeProfit",
     "placeMarketOrder", "placeLimitOrder"}

BulkOps == {"closeAllPositions", "cancelAllOrders"}

\* the argument lists an operation is invoked with; a bulk operation is
\* invoked without its argument by /closeall and /cancelall
ArgLists(op) ==
    CASE op \in {"getAccountBalance", "getOpenPositions", "getPendingOrders"} -> {<< >>}
      [] op = "closePosition" -> {<<s, d>> : s \in Symbols, d \in {Str("LONG"), Str("SHORT")}}
      [] op = "cancelOrder" -> {<<s, Str("1001")>> : s \in Symbols}
      [] op = "setTrailingStop" -> {<<s, Str("100"), Str("5")>> : s \in Symbols}
      [] op \in {"setStopLoss", "setTakeProfit"} -> {<<s, Str("100")>> : s \in Symbols}
      [] op = "placeMarketOrder" ->
            {<<s, d, Num("5")>> : s \in Symbols, d \in {Str("BUY"), Str("SELL")}}
      [] op = "placeLimitOrder" ->
            {<<s, d, Num("5"), Str("100")>> : s \in Symbols, d \in {Str("BUY"), Str("SELL")}}
      [] op \in BulkOps -> {<<s>> : s \in Symbols \cup {EmptyString}}
      [] op \in {"simpleTradingStrategy", "getPrice"} -> {<<s>> : s \in Symbols}
      [] op = "getPositionsRoute" -> {<< >>}

\* the makeRequest call a single-call operation makes
OpCall(op, args) ==
    CASE op = "getAccountBalance" -> getAccountBalance
      [] op = "getOpenPositions" -> getOpenPositions
      [] op = "getPendingOrders" -> getPendingOrders
      [] op = "closePosition" -> closePosition(args[1], args[2])
      [] op = "cancelOrder" -> cancelOrder(args[1], args[2])
      [] op = "setTrailingStop" -> setTrailingStop(args[1], args[2], args[3])
      [] op = "setStopLoss" -> setStopLoss(args[1], args[2])
      [] op = "setTakeProfit" -> setTakeProfit(args[1], args[2])
      [] op = "placeMarketOrder" -> placeMarketOrder(args[1], args[2], args[3])
      [] op = "placeLimitOrder" -> placeLimitOrder(args[1], args[2], args[3], args[4])
      [] op = "getPositionsRoute" -> getPositionsRoute
      [] op = "getPrice" -> getPrice(args[1])

-----------------------------------------------------------------------------
(* Bulk operations, strategy and routes: the pure parts *)

\* a faulty variant of Selected: the filter lets every listed entry through
Selected_all(symbol, pos) == TRUE

\* the filter predicate of closeAllPositions and cancelAllOrders
Selected(symbol, pos) == symbol = EmptyString \/ pos.symbol = symbol

\* the default parameter symbol = "": taken when the argument is undefined
DefaultSymbol(arg) == IF arg = Undefined THEN EmptyString ELSE arg

\* list.filter(...)
RECURSIVE Filter(_, _)
Filter(list, symbol) ==
    IF list = << >> THEN << >>
    ELSE IF Selected(symbol, Head(list)) THEN <<Head(list)>> \o Filter(Tail(list), symbol)
    ELSE Filter(Tail(list), symbol)

\* the close or cancel call a bulk operation makes for a listed entry
ItemCall(op, pos) ==
    IF op = "closeAllPositions" THEN closePosition(pos.symbol, pos.positionSide)
    ELSE cancelOrder(pos.symbol, pos.orderId)

\* the calls a bulk operation fans out for the list it fetched
FanOut(op, symbolArg, list) ==
    LET kept == Filter(list, DefaultSymbol(symbolArg))
    IN  [i \in 1..Len(kept) |-> ItemCall(op, kept[i])]

\* a faulty variant of PromiseAll: a rejection of an element is swallowed, as by
\* Promise.allSettled, and the aggregate resolves with what did resolve
PromiseAll_settled(agg, results, k) ==
    IF agg.state /= "pending" THEN agg
    ELSE IF \A i \in 1..Len(results) : results[i].state /= "pending"
    THEN Resolved(JArray([i \in 1..Len(results) |-> results[i].value.body]))
    ELSE agg

\* a faulty variant of PromiseAll: a rejection of an element is held back until
\* every element has settled
PromiseAll_waits(agg, results, k) ==
    IF agg.state /= "pending" THEN agg
    ELSE IF \E i \in 1..Len(results) : results[i].state = "pending" THEN agg
    ELSE IF \E i \in 1..Len(results) : results[i].state = "rejected"
    THEN Rejected(results[CHOOSE i \in 1..Len(results) : results[i].state = "rejected"].error)
    ELSE Resolved(JArray([i \in 1..Len(results) |-> results[i].value.body]))

\* a faulty variant of PromiseAll: the array is filled as the elements settle,
\* the element that settled last coming last
PromiseAll_arrivalOrder(agg, results, k) ==
    IF agg.state /= "pending" THEN agg
    ELSE IF results[k].state = "rejected" THEN Rejected(results[k].error)
    ELSE IF \A i \in 1..Len(results) : results[i].state = "resolved"
    THEN Resolved(JArray([i \in 1..Len(results) |->
            IF i < Len(results) THEN http[arrivals[i + 1]].body
                                ELSE results[k].value.body]))
    ELSE agg

\* Promise.all(promises): the aggregate, which was agg, once element k of
\* the promises, whose states are results, has settled
PromiseAll(agg, results, k) ==
    IF agg.state /= "pending" THEN agg
    ELSE IF results[k].state = "rejected" THEN Rejected(results[k].error)
    ELSE IF \A i \in 1..Len(results) : results[i].state = "resolved"
    THEN Resolved(JArray([i \in 1..Len(results) |-> results[i].value.body]))
    ELSE agg

\* a faulty variant of StrategyDecision: an unchanged price buys
StrategyDecision_buysOnEqual(currentPrice, previousPrice) ==
    IF IsNaN(currentPrice) \/ IsNaN(previousPrice) THEN "NONE"
    ELSE IF Hundredths(currentPrice) >= Hundredths(previousPrice) THEN "BUY"
    ELSE "SELL"

\* simpleTradingStrategy: the branch taken for the two parsed prices; every
\* comparison with NaN is false
StrategyDecision(currentPrice, previousPrice) ==
    IF IsNaN(currentPrice) \/ IsNaN(previousPrice) THEN "NONE"
    ELSE IF Hundredths(currentPrice) > Hundredths(previousPrice) THEN "BUY"
    ELSE IF Hundredths(currentPrice) < Hundredths(previousPrice) THEN "SELL"
    ELSE "NONE"

\* the order size of simpleTradingStrategy
StrategyQuantity == Num("0.01")

\* the catch block of simpleTradingStrategy: evaluating next(error) throws
StrategyCatch(error) == ReferenceErrorNext

\* a response written to the HTTP client
NoEnvelope == [status |-> "", statusCode |-> 0, message |-> "", stack |-> FALSE]

NoResponse == [by |-> "none", status |-> 0, json |-> JUndefined, envelope |-> NoEnvelope]

\* res.json(value)
ResJson(value) == [by |-> "res.json", status |-> 200, json |-> value, envelope |-> NoEnvelope]

\* errorMiddleware(err, req, res, next); err.statusCode is undefined for
\* every error of this program
errorMiddleware(err, development) ==
    LET statusCode == 500
        message    == IF err.message /= "" THEN err.message ELSE "Internal Server Error"
    IN  [by |-> "errorMiddleware", status |-> statusCode, json |-> JUndefined,
         envelope |-> [status |-> "error", statusCode |-> statusCode,
                       message |-> message, stack |-> development]]

\* the framework's own final handler: status 500 and an HTML page
FinalHandler == [by |-> "finalhandler", status |-> 500, json |-> JUndefined, envelope |-> NoEnvelope]

\* the catch block of a route handler of part_000, which has no next
\* parameter: evaluating next(error) throws
RouteCatch(error) == ReferenceErrorNext

\* the operation each route awaits
Routes == {"GET /balance", "GET /positions", "GET /price/:symbol", "POST /trade/:symbol"}

RouteOp(route) ==
    CASE route = "GET /balance" -> "getAccountBalance"
      [] route = "GET /positions" -> "getPositionsRoute"
      [] route = "GET /price/:symbol" -> "getPrice"
      [] route = "POST /trade/:symbol" -> "simpleTradingStrategy"

\* what the framework does with a handler whose promise rejected: version 4
\* drops the promise, version 5 passes the rejection on, past the error
\* middleware registered ahead of the routes, to its final handler
Frameworks == {"express4", "express5"}

-----------------------------------------------------------------------------
(* Chat commands: the pure parts *)

\* the commands of the bot; /yosiet is a second name of /help
Commands ==
    {"/help", "/market", "/limit", "/balance", "/positions", "/orders", "/close",
     "/cancel", "/closeall", "/cancelall", "/trailingstop", "/sl", "/tp"}

\* the non-empty prefixes of the word sequences in S
Prefixes(S) == UNION {{SubSeq(w, 1, n) : n \in 1..Len(w)} : w \in S}

\* the messages a command is sent with, as ctx.message.text.split(" ") gives
\* them: the command word, then the argument words; a word is "" where the
\* text has two spaces in a row, and trailing arguments can be missing
Messages(cmd) ==
    CASE cmd = "/market" ->
            Prefixes({<<cmd, "BTC-USDT", d, q>> : d \in {"BUY", "sell", "HOLD"},
                                                   q \in {"5", "5x", "abc", "-1"}})
                \cup {<<cmd, "", "BUY", "5">>}
      [] cmd = "/limit" ->
            Prefixes({<<cmd, "BTC-USDT", d, q, "100">> : d \in {"BUY", "HOLD"},
                                                          q \in {"5", "abc"}})
      [] cmd = "/close" ->
            Prefixes({<<cmd, "BTC-USDT", d>> : d \in {"LONG", "SIDEWAYS"}})
      [] cmd = "/cancel" -> Prefixes({<<cmd, "BTC-USDT", "1001">>})
      [] cmd \in {"/closeall", "/cancelall"} -> Prefixes({<<cmd, "BTC-USDT">>})
      [] cmd = "/trailingstop" -> Prefixes({<<cmd, "BTC-USDT", "100", "5">>})
      [] cmd \in {"/sl", "/tp"} -> Prefixes({<<cmd, "BTC-USDT", p>> : p \in {"100", "abc"}})
      [] OTHER -> {<<cmd>>}

\* const [a, b, ...] = words.slice(1): the i-th name of the pattern
Destructure(words, i) ==
    IF i <= Len(Tail(words)) THEN Str(Tail(words)[i]) ELSE Undefined

\* !v for an argument word: true of undefined and of ""
Falsy(v) == v \in {Undefined, EmptyString}

\* String.prototype.toUpperCase over the texts of the model
toUpperCase(text) ==
    CASE text = "buy" -> "BUY"
      [] text = "sell" -> "SELL"
      [] OTHER -> text

\* ctx.reply(text): text is the given text up to the JSON it ends with, json
\* the value whose JSON.stringify(value, null, 2) follows after a newline,
\* if any; extra is the parse mode asked for in the second argument of
\* ctx.reply, undefined as no handler passes a second argument
ctxReply(text, json) == [text |-> text, json |-> json, extra |-> Undefined]

\* the first line of helpMessage
helpMessage == "Available Commands:"

\* the usage line of a command
Usage(cmd) ==
    CASE cmd = "/market" -> "Usage: /market <symbol> <BUY|SELL> <quantity>"
      [] cmd = "/limit" -> "Usage: /limit <symbol> <BUY|SELL> <quantity> <price>"
      [] cmd = "/close" -> "Usage: /close <symbol> <LONG|SHORT>"
      [] cmd = "/cancel" -> "Usage: /cancel <symbol> <orderId>"
      [] cmd = "/trailingstop" ->
            "Usage: /trailingstop <symbol> <activationPrice> <callbackRate>"
      [] cmd = "/sl" -> "Usage: /sl <symbol> <stopPrice>"
      [] cmd = "/tp" -> "Usage: /tp <symbol> <stopPrice>"

\* the number of arguments a handler tests for presence
Required(cmd) ==
    CASE cmd = "/limit" -> 4
      [] cmd \in {"/market", "/trailingstop"} -> 3
      [] cmd \in {"/close", "/cancel", "/sl", "/tp"} -> 2
      [] OTHER -> 0

\* validation found nothing to reply
Passed == ""

\* the checks a handler makes before its try block: the text it replies and
\* returns with, or Passed
Validate(cmd, words) ==
    IF \E i \in 1..Required(cmd) : Falsy(Destructure(words, i)) THEN Usage(cmd)
    ELSE IF cmd \notin {"/market", "/limit"} THEN Passed
    ELSE LET side           == Destructure(words, 2).text
             parsedQuantity == parseFloat(Destructure(words, 3).text)
         IN  IF toUpperCase(side) \notin {"BUY", "SELL"}
             THEN "Side must be either BUY or SELL"
             ELSE IF IsNaN(parsedQuantity) \/ Hundredths(parsedQuantity) <= 0
             THEN "Quantity must be a positive number"
             ELSE Passed

\* the operation a handler calls in its try block
CommandOp(cmd) ==
    CASE cmd = "/market" -> "placeMarketOrder"
      [] cmd = "/limit" -> "placeLimitOrder"
      [] cmd = "/balance" -> "getAccountBalance"
      [] cmd = "/positions" -> "getOpenPositions"
      [] cmd = "/orders" -> "getPendingOrders"
      [] cmd = "/close" -> "closePosition"
      [] cmd = "/cancel" -> "cancelOrder"
      [] cmd = "/closeall" -> "closeAllPositions"
      [] cmd = "/cancelall" -> "cancelAllOrders"
      [] cmd = "/trailingstop" -> "setTrailingStop"
      [] cmd = "/sl" -> "setStopLoss"
      [] cmd = "/tp" -> "setTakeProfit"

\* the arguments it calls the operation with
CommandArgs(cmd, words) ==
    CASE cmd = "/market" ->
            <<Destructure(words, 1), Str(toUpperCase(Destructure(words, 2).text)),
              Num(parseFloat(Destructure(words, 3).text))>>
      [] cmd = "/limit" ->
            <<Destructure(words, 1), Str(toUpperCase(Destructure(words, 2).text)),
              Num(parseFloat(Destructure(words, 3).text)), Destructure(words, 4)>>
      [] cmd \in {"/balance", "/positions", "/orders"} -> << >>
      [] cmd \in {"/closeall", "/cancelall"} -> <<Destructure(words, 1)>>
      [] cmd = "/trailingstop" ->
            <<Destructure(words, 1), Destructure(words, 2), Destructure(words, 3)>>
      [] OTHER -> <<Destructure(words, 1), Destructure(words, 2)>>

\* the first line of the reply a handler makes when the operation resolved
CommandLabel(cmd) ==
    CASE cmd = "/market" -> "Market order placed:"
      [] cmd = "/limit" -> "Limit order placed:"
      [] cmd = "/balance" -> "Account Balance:"
      [] cmd = "/positions" -> "Open Positions:"
      [] cmd = "/orders" -> "Pending Orders:"
      [] cmd = "/close" -> "Position closed:"
      [] cmd = "/cancel" -> "Order canceled:"
      [] cmd = "/closeall" -> "All positions closed:"
      [] cmd = "/cancelall" -> "All orders canceled:"
      [] cmd = "/trailingstop" -> "Trailing stop set:"
      [] cmd = "/sl" -> "Stop loss set:"
      [] cmd = "/tp" -> "Take profit set:"

\* a faulty variant of CommandCatch: the error itself is interpolated, which
\* yields its name, a colon and its message
CommandCatch_interpolatesError(error) ==
    ctxReply("Error: " \o error.name \o ": " \o error.message, JUndefined)

\* the catch block of a handler
CommandCatch(error) == ctxReply("Error: " \o error.message, JUndefined)

\* a faulty variant of HandlerReplies: the catch block only logs
HandlerReplies_catchLogs(cmd, outcome) ==
    IF outcome.state = "resolved"
    THEN <<ctxReply(CommandLabel(cmd), outcome.value)>>
    ELSE << >>

\* the ctx.reply calls a handler makes once the operation it awaited has
\* settled: one in the try block, or one in the catch block
HandlerReplies(cmd, outcome) ==
    IF outcome.state = "resolved"
    THEN <<ctxReply(CommandLabel(cmd), outcome.value)>>
    ELSE <<CommandCatch(outcome.error)>>

-----------------------------------------------------------------------------
(* The server at work: one invocation at a time, its calls in flight *)

Idle == [kind |-> "idle", route |-> "", op |-> "", args |-> << >>]

Invocation(kind, route, op, args) == [kind |-> kind, route |-> route, op |-> op, args |-> args]

\* no invocation is being served
RunIdle ==
    /\ clock = 1
    /\ entry = Idle
    /\ pc = "idle"
    /\ reqs = << >>
    /\ http = << >>
    /\ fan = << >>
    /\ arrivals = << >>
    /\ strat = ""
    /\ opResult = Pending
    /\ httpRes = NoResponse
    /\ unhandled = << >>
    /\ ctxMessage = << >>
    /\ replies = << >>


\* reqs and http after one more makeRequest invocation mr
Issued(rs, hs, mr) ==
    [reqs |-> Append(rs, mr.req),
     http |-> hs \o [i \in 1..Len(mr.calls) |->
                        [req |-> Len(rs) + 1, config |-> mr.calls[i], state |-> "inflight",
                         body |-> NoBody, error |-> NoError]]]

\* the module has been loaded: checkServerTime() was called on the way and
\* its request for the exchange's time is in flight
Init ==
    LET c  == getServerTime
        is == Issued(<< >>, << >>, makeRequest(c.method, c.endpoint, c.params, 1))
    IN  /\ sigParams = EmptyObject
        /\ sigSecret = SECRET_KEY
        /\ sigJs = NotRun
        /\ sigTs = NotRun
        /\ clock = 1
        /\ entry = Invocation("startup", "", "checkServerTime", << >>)
        /\ pc = "await"
        /\ reqs = is.reqs
        /\ http = is.http
        /\ fan = << >>
        /\ arrivals = << >>
        /\ strat = ""
        /\ opResult = Pending
        /\ httpRes = NoResponse
        /\ unhandled = << >>
        /\ ctxMessage = << >>
        /\ replies = << >>

\* reqs and http after the makeRequest invocations for calls, made at times
RECURSIVE IssuedAll(_, _, _, _)
IssuedAll(rs, hs, calls, times) ==
    IF calls = << >> THEN [reqs |-> rs, http |-> hs]
    ELSE LET c  == Head(calls)
             is == Issued(rs, hs, makeRequest(c.method, c.endpoint, c.params, Head(times)))
         IN  IssuedAll(is.reqs, is.http, Tail(calls), Tail(times))

\* the nondecreasing readings of Date.now() for n calls made in a row
Readings(n) ==
    {t \in [1..n -> clock..MaxClock] : \A i, j \in 1..n : i <= j => t[i] <= t[j]}

\* the request of makeRequest invocation r that the invocation awaits
Awaited(r) == CHOOSE h \in 1..Len(http) : http[h].req = r /\ \A g \in 1..(h - 1) : http[g].req /= r

InFlight == {h \in 1..Len(http) : http[h].state = "inflight"}

\* the promise of the operation settles: a direct caller just holds it; a
\* chat command handler replies; a route handler answers with res.json, or
\* lands in its catch block, whose next(error) throws, so that the handler's
\* own promise rejects
Settle(outcome) ==
    /\ opResult' = outcome
    /\ pc' = "done"
    /\ IF entry.kind = "cmd"
       THEN replies' = replies \o HandlerReplies(entry.route, outcome)
       ELSE UNCHANGED replies
    /\ IF entry.kind /= "route"
       THEN UNCHANGED <<httpRes, unhandled>>
       ELSE IF outcome.state = "resolved"
       THEN httpRes' = ResJson(outcome.value) /\ UNCHANGED unhandled
       ELSE \E fw \in Frameworks :
                IF fw = "express4"
                THEN /\ unhandled' = Append(unhandled, RouteCatch(outcome.error))
                     /\ UNCHANGED httpRes
                ELSE /\ httpRes' = FinalHandler
                     /\ UNCHANGED unhandled

\* axios answers request h: with body b when ok, else by rejecting with e
Answered(h, ok, b, e) ==
    [http EXCEPT ![h] = [@ EXCEPT !.state = IF ok THEN "ok" ELSE "failed",
                                  !.body = IF ok THEN b ELSE NoBody,
                                  !.error = IF ok THEN NoError ELSE e]]

\* the makeRequest invocations once invocation r has settled on that answer
Settled(r, ok, b, e) ==
    [reqs EXCEPT ![r].result = RequestSettles(reqs[r].file, ok, b, e)]

\* the answers axios can give to request h: <<ok, body, error>>
Answers(h) ==
    {<<TRUE, b, NoError>> : b \in ResponseBodies(reqs[http[h].req].endpoint)}
        \cup {<<FALSE, NoBody, e>> : e \in AxiosErrors}

\* an operation that makes one makeRequest call starts
StartSimple(kind, route, op, args, now) ==
    LET c  == OpCall(op, args)
        is == Issued(reqs, http, makeRequest(c.method, c.endpoint, c.params, now))
    IN  /\ entry' = Invocation(kind, route, op, args)
        /\ pc' = "await"
        /\ reqs' = is.reqs
        /\ http' = is.http
        /\ clock' = now
        /\ UNCHANGED <<fan, arrivals, strat, opResult, httpRes, unhandled, replies>>

\* simpleTradingStrategy(symbol) starts: it asks for the current price
StartStrategy(kind, route, args, now) ==
    LET c  == getPrice(args[1])
        is == Issued(reqs, http, makeRequest(c.method, c.endpoint, c.params, now))
    IN  /\ entry' = Invocation(kind, route, "simpleTradingStrategy", args)
        /\ pc' = "ticker"
        /\ reqs' = is.reqs
        /\ http' = is.http
        /\ clock' = now
        /\ UNCHANGED <<fan, arrivals, strat, opResult, httpRes, unhandled, replies>>

\* a caller invokes one of the non-bulk exchange operations
InvokeOp ==
    /\ pc = "idle"
    /\ \E op \in NonBulkOps, now \in clock..MaxClock :
         \E args \in ArgLists(op) : StartSimple("direct", "", op, args, now)
    /\ UNCHANGED <<ctxMessage, sigVars>>

\* a caller invokes index.ts's makeRequest
InvokeMakeRequestTs ==
    /\ pc = "idle"
    /\ \E c \in {getAccountBalance, closePosition(Str("BTC-USDT"), Str("LONG"))},
          now \in clock..MaxClock :
         LET is == Issued(reqs, http, makeRequestTs(c.method, c.endpoint, c.params, now))
         IN  /\ entry' = Invocation("direct", "", "makeRequestTs", << >>)
             /\ pc' = "await"
             /\ reqs' = is.reqs
             /\ http' = is.http
             /\ clock' = now
    /\ UNCHANGED <<fan, arrivals, strat, opResult, httpRes, unhandled, replies>>
    /\ UNCHANGED <<ctxMessage, sigVars>>

\* closeAllPositions(symbol) or cancelAllOrders(symbol) starts: the list is
\* asked for
StartBulk(kind, route, op, args, now) ==
    LET c  == IF op = "closeAllPositions" THEN getOpenPositions ELSE getPendingOrders
        is == Issued(reqs, http, makeRequest(c.method, c.endpoint, c.params, now))
    IN  /\ entry' = Invocation(kind, route, op, args)
        /\ pc' = "list"
        /\ reqs' = is.reqs
        /\ http' = is.http
        /\ clock' = now
        /\ UNCHANGED <<fan, arrivals, strat, opResult, httpRes, unhandled, replies>>

\* a caller invokes closeAllPositions(symbol) or cancelAllOrders(symbol)
InvokeBulk ==
    /\ pc = "idle"
    /\ \E op \in BulkOps, now \in clock..MaxClock :
         \E args \in ArgLists(op) : StartBulk("direct", "", op, args, now)
    /\ UNCHANGED <<ctxMessage, sigVars>>

\* a caller invokes simpleTradingStrategy(symbol)
InvokeStrategy ==
    /\ pc = "idle"
    /\ \E now \in clock..MaxClock :
         \E args \in ArgLists("simpleTradingStrategy") : StartStrategy("direct", "", args, now)
    /\ UNCHANGED <<ctxMessage, sigVars>>

\* a request arrives at GET /balance, GET /positions or GET /price/:symbol
InvokeRoute ==
    /\ pc = "idle"
    /\ \E route \in Routes \ {"POST /trade/:symbol"}, now \in clock..MaxClock :
         \E args \in ArgLists(RouteOp(route)) :
            StartSimple("route", route, RouteOp(route), args, now)
    /\ UNCHANGED <<ctxMessage, sigVars>>

\* a request arrives at POST /trade/:symbol
InvokeTradeRoute ==
    /\ pc = "idle"
    /\ \E now \in clock..MaxClock :
         \E args \in ArgLists("simpleTradingStrategy") :
            StartStrategy("route", "POST /trade/:symbol", args, now)
    /\ UNCHANGED <<ctxMessage, sigVars>>

\* /help (or /yosiet) arrives: the handler replies with the command list
CommandHelp ==
    /\ pc = "idle"
    /\ entry' = Invocation("cmd", "/help", "", << >>)
    /\ ctxMessage' = <<"/help">>
    /\ replies' = Append(replies, ctxReply(helpMessage, JUndefined))
    /\ pc' = "done"
    /\ UNCHANGED <<clock, reqs, http, fan, arrivals, strat, opResult, httpRes, unhandled>>
    /\ UNCHANGED sigVars

\* a command arrives whose message does not pass the handler's checks: the
\* handler returns with the usage or validation reply, its try block not
\* entered
CommandRejected ==
    /\ pc = "idle"
    /\ \E cmd \in Commands \ {"/help"} : \E words \in Messages(cmd) :
         /\ Validate(cmd, words) /= Passed
         /\ entry' = Invocation("cmd", cmd, "", << >>)
         /\ ctxMessage' = words
         /\ replies' = Append(replies, ctxReply(Validate(cmd, words), JUndefined))
    /\ pc' = "done"
    /\ UNCHANGED <<clock, reqs, http, fan, arrivals, strat, opResult, httpRes, unhandled>>
    /\ UNCHANGED sigVars

\* a command arrives whose message passes the checks, for a handler that
\* awaits a single-call operation
InvokeCommand ==
    /\ pc = "idle"
    /\ \E cmd \in Commands \ {"/help", "/closeall", "/cancelall"}, now \in clock..MaxClock :
         \E words \in Messages(cmd) :
            /\ Validate(cmd, words) = Passed
            /\ ctxMessage' = words
            /\ StartSimple("cmd", cmd, CommandOp(cmd), CommandArgs(cmd, words), now)
    /\ UNCHANGED sigVars

\* /closeall or /cancelall arrives: the handler awaits the bulk operation
InvokeBulkCommand ==
    /\ pc = "idle"
    /\ \E cmd \in {"/closeall", "/cancelall"}, now \in clock..MaxClock :
         \E words \in Messages(cmd) :
            /\ Validate(cmd, words) = Passed
            /\ ctxMessage' = words
            /\ StartBulk("cmd", cmd, CommandOp(cmd), CommandArgs(cmd, words), now)
    /\ UNCHANGED sigVars

\* the one call of a single-call operation is answered: makeRequest returns
\* the body or throws, and the operation's promise follows it, except that
\* checkServerTime swallows both
RespondAwait ==
    /\ pc = "await"
    /\ \E h \in InFlight : \E a \in Answers(h) :
         LET r  == http[h].req
             rs == Settled(r, a[1], a[2], a[3])
         IN  /\ h = Awaited(r)
             /\ http' = Answered(h, a[1], a[2], a[3])
             /\ arrivals' = Append(arrivals, h)
             /\ reqs' = rs
             /\ IF entry.op = "checkServerTime"
                THEN Settle(checkServerTime(rs[r].result))
                ELSE Settle(rs[r].result)
    /\ UNCHANGED <<clock, entry, fan, strat>>
    /\ UNCHANGED <<ctxMessage, sigVars>>

\* the list call of a bulk operation is answered: on failure the operation
\* rejects; otherwise the list is filtered, one close or cancel call is made
\* per entry kept, and Promise.all is given their promises
RespondList ==
    /\ pc = "list"
    /\ \E h \in InFlight : \E a \in Answers(h) :
         LET r  == http[h].req
             rs == Settled(r, a[1], a[2], a[3])
             hs == Answered(h, a[1], a[2], a[3])
         IN  /\ h = Awaited(r)
             /\ arrivals' = Append(arrivals, h)
             /\ IF ~a[1]
                THEN /\ reqs' = rs
                     /\ http' = hs
                     /\ Settle(rs[r].result)
                     /\ UNCHANGED <<clock, fan>>
                ELSE LET calls == FanOut(entry.op, entry.args[1], a[2].list)
                     IN  \E times \in Readings(Len(calls)) :
                            LET is == IssuedAll(rs, hs, calls, times)
                            IN  /\ reqs' = is.reqs
                                /\ http' = is.http
                                /\ fan' = [i \in 1..Len(calls) |-> Len(rs) + i]
                                /\ clock' = IF calls = << >> THEN clock ELSE times[Len(calls)]
                                /\ IF calls = << >>
                                   THEN Settle(Resolved(JArray(<< >>)))
                                   ELSE /\ pc' = "fanout"
                                        /\ UNCHANGED <<opResult, httpRes, unhandled, replies>>
    /\ UNCHANGED <<entry, strat>>
    /\ UNCHANGED <<ctxMessage, sigVars>>

\* one of the fanned-out calls is answered: its promise settles and
\* Promise.all reacts; answers that come after the aggregate has settled
\* settle their own promise only
RespondItem ==
    /\ pc \in {"fanout", "done"}
    /\ entry.op \in BulkOps
    /\ \E h \in InFlight : \E a \in Answers(h) :
         LET r   == http[h].req
             rs  == Settled(r, a[1], a[2], a[3])
             k   == CHOOSE i \in 1..Len(fan) : fan[i] = r
             agg == PromiseAll(opResult, [i \in 1..Len(fan) |-> rs[fan[i]].result], k)
         IN  /\ h = Awaited(r)
             /\ \E i \in 1..Len(fan) : fan[i] = r
             /\ http' = Answered(h, a[1], a[2], a[3])
             /\ arrivals' = Append(arrivals, h)
             /\ reqs' = rs
             /\ IF pc = "fanout" /\ agg.state /= "pending"
                THEN Settle(agg)
                ELSE UNCHANGED <<pc, opResult, httpRes, unhandled, replies>>
    /\ UNCHANGED <<clock, entry, fan, strat>>
    /\ UNCHANGED <<ctxMessage, sigVars>>

\* the price call of the strategy is answered: on failure the catch block
\* runs; otherwise the price is parsed and the candles are asked for
RespondTicker ==
    /\ pc = "ticker"
    /\ \E h \in InFlight : \E a \in Answers(h) :
         LET r  == http[h].req
             rs == Settled(r, a[1], a[2], a[3])
             hs == Answered(h, a[1], a[2], a[3])
         IN  /\ h = Awaited(r)
             /\ arrivals' = Append(arrivals, h)
             /\ IF ~a[1]
                THEN /\ reqs' = rs
                     /\ http' = hs
                     /\ Settle(Rejected(StrategyCatch(rs[r].result.error)))
                     /\ UNCHANGED <<clock, strat>>
                ELSE \E now \in clock..MaxClock :
                        LET c  == getKlines(entry.args[1])
                            is == Issued(rs, hs, makeRequest(c.method, c.endpoint, c.params, now))
                        IN  /\ reqs' = is.reqs
                            /\ http' = is.http
                            /\ strat' = parseFloat(a[2].price)
                            /\ clock' = now
                            /\ pc' = "klines"
                            /\ UNCHANGED <<opResult, httpRes, unhandled, replies>>
    /\ UNCHANGED <<entry, fan>>
    /\ UNCHANGED <<ctxMessage, sigVars>>

\* the candle call of the strategy is answered: on failure the catch block
\* runs; otherwise the close is parsed and compared with the price, and the
\* strategy returns the promise of a market order, or null
RespondKlines ==
    /\ pc = "klines"
    /\ \E h \in InFlight : \E a \in Answers(h) :
         LET r  == http[h].req
             rs == Settled(r, a[1], a[2], a[3])
             hs == Answered(h, a[1], a[2], a[3])
             decision == StrategyDecision(strat, parseFloat(a[2].price))
         IN  /\ h = Awaited(r)
             /\ arrivals' = Append(arrivals, h)
             /\ IF ~a[1]
                THEN /\ reqs' = rs
                     /\ http' = hs
                     /\ Settle(Rejected(StrategyCatch(rs[r].result.error)))
                     /\ UNCHANGED clock
                ELSE IF decision = "NONE"
                THEN /\ reqs' = rs
                     /\ http' = hs
                     /\ Settle(Resolved(JNull))
                     /\ UNCHANGED clock
                ELSE \E now \in clock..MaxClock :
                        LET c  == placeMarketOrder(entry.args[1], Str(decision), StrategyQuantity)
                            is == Issued(rs, hs, makeRequest(c.method, c.endpoint, c.params, now))
                        IN  /\ reqs' = is.reqs
                            /\ http' = is.http
                            /\ clock' = now
                            /\ pc' = "order"
                            /\ UNCHANGED <<opResult, httpRes, unhandled, replies>>
    /\ UNCHANGED <<entry, fan, strat>>
    /\ UNCHANGED <<ctxMessage, sigVars>>

\* the order call of the strategy is answered: the strategy returned the
\* order's promise without awaiting it, so its own promise follows it, and
\* the catch block is not entered
RespondOrder ==
    /\ pc = "order"
    /\ \E h \in InFlight : \E a \in Answers(h) :
         LET r  == http[h].req
             rs == Settled(r, a[1], a[2], a[3])
         IN  /\ h = Awaited(r)
             /\ http' = Answered(h, a[1], a[2], a[3])
             /\ arrivals' = Append(arrivals, h)
             /\ reqs' = rs
             /\ Settle(rs[r].result)
    /\ UNCHANGED <<clock, entry, fan, strat>>
    /\ UNCHANGED <<ctxMessage, sigVars>>

\* the invocation is over and nothing is in flight: the server is ready
\* for the next one
Finish ==
    /\ pc = "done"
    /\ InFlight = {}
    /\ entry' = Idle
    /\ pc' = "idle"
    /\ reqs' = << >>
    /\ http' = << >>
    /\ fan' = << >>
    /\ arrivals' = << >>
    /\ strat' = ""
    /\ opResult' = Pending
    /\ httpRes' = NoResponse
    /\ unhandled' = << >>
    /\ ctxMessage' = << >>
    /\ replies' = << >>
    /\ UNCHANGED clock
    /\ UNCHANGED sigVars

Next ==
    \/ InvokeOp
    \/ InvokeMakeRequestTs
    \/ InvokeBulk
    \/ InvokeStrategy
    \/ InvokeRoute
    \/ InvokeTradeRoute
    \/ CommandHelp
    \/ CommandRejected
    \/ InvokeCommand
    \/ InvokeBulkCommand
    \/ RespondAwait
    \/ RespondList
    \/ RespondItem
    \/ RespondTicker
    \/ RespondKlines
    \/ RespondOrder
    \/ Finish

Spec == Init /\ [][Next]_vars

-----------------------------------------------------------------------------
(* Runs of the Signer on its own *)

SignKeys == {"quantity", "side", "symbol", "timestamp"}

SignValues == {EmptyString, Str("a b"), Num("2")}

SecretKeys == {"secret"}

\* every object of at most n entries over SignKeys and SignValues
SignObjects(n) ==
    UNION {
        {o \in [1..m -> SignKeys \X SignValues] :
            \A i, j \in 1..m : i /= j => o[i][1] /= o[j][1]}
        : m \in 0..n }

\* every object holding the entries of obj in some insertion order
Reorderings(obj) ==
    LET n == Len(obj)
        perms == {p \in [1..n -> 1..n] : \A i, j \in 1..n : i /= j => p[i] /= p[j]}
    IN  {[i \in 1..n |-> obj[p[i]]] : p \in perms}

\* obj without its entries whose value is ""
RECURSIVE DropEmpty(_)
DropEmpty(obj) ==
    IF obj = << >> THEN << >>
    ELSE IF Head(obj)[2] = EmptyString THEN DropEmpty(Tail(obj))
    ELSE <<Head(obj)>> \o DropEmpty(Tail(obj))

SignInit ==
    /\ sigParams \in SignObjects(MaxSignParams)
    /\ sigSecret \in SecretKeys
    /\ sigJs = NotRun
    /\ sigTs = NotRun
    /\ RunIdle

\* a caller runs part_000's generateSignature
SignJs ==
    /\ sigJs = NotRun
    /\ sigJs' = generateSignature(sigParams, sigSecret)
    /\ UNCHANGED <<sigParams, sigSecret, sigTs>>
    /\ UNCHANGED runVars

\* a caller runs index.ts's generateSignature
SignTs ==
    /\ sigTs = NotRun
    /\ sigTs' = generateSignatureTs(sigParams, sigSecret)
    /\ UNCHANGED <<sigParams, sigSecret, sigJs>>
    /\ UNCHANGED runVars

SignNext == SignJs \/ SignTs

SignSpec == SignInit /\ [][SignNext]_vars

-----------------------------------------------------------------------------
(* Properties *)

\* the parameter object request h carries, in the query string or the body
SentParams(h) ==
    IF http[h].config.params.set THEN http[h].config.params.obj ELSE http[h].config.data.obj

\* the requests axios was handed by makeRequest invocation r
CallsOf(r) == {h \in 1..Len(http) : http[h].req = r}

\* the makeRequest invocations Promise.all was given
FanSet == {fan[i] : i \in 1..Len(fan)}

\* C1: for every request issued by makeRequest of part_000, the key/value
\* pairs handed to generateSignature are the pairs sent minus the signature,
\* which are the caller's params plus the timestamp; for a GET without caller
\* params the signed keys are exactly {timestamp}.
C1_SignedIsSent ==
    \A h \in 1..Len(http) :
        LET r == reqs[http[h].req]
        IN  r.file = "part_000" =>
              /\ Pairs(r.signed) = Pairs(Without(SentParams(h), "signature"))
              /\ Pairs(r.signed) =
                    Pairs(r.params) \cup {<<"timestamp", Get(SentParams(h), "timestamp")>>}
              /\ HasKey(SentParams(h), "signature")
              /\ (r.method = "GET" /\ r.params = EmptyObject
                    => KeySet(r.signed) = {"timestamp"})

\* a bulk operation has a GET without params and a POST with params out
C1_Witness ==
    \E g, h \in 1..Len(http) :
        /\ reqs[http[g].req].file = "part_000"
        /\ reqs[http[g].req].method = "GET"
        /\ reqs[http[g].req].params = EmptyObject
        /\ reqs[http[h].req].file = "part_000"
        /\ reqs[http[h].req].method = "POST"
        /\ Len(reqs[http[h].req].params) = 2

\* C2: the canonical string and the signature of generateSignature, of
\* part_000 and of index.ts, are the same for every insertion order of the
\* keys of the parameter object.
C2_KeyOrderIndependent ==
    \A q \in Reorderings(sigParams) :
        /\ sigJs /= NotRun =>
              /\ QueryString(q) = QueryString(sigParams)
              /\ generateSignature(q, sigSecret) = sigJs
        /\ sigTs /= NotRun =>
              /\ QueryStringTs(q) = QueryStringTs(sigParams)
              /\ generateSignatureTs(q, sigSecret) = sigTs

\* both signers have run on three entries that were not inserted in order
C2_Witness ==
    /\ sigJs /= NotRun
    /\ sigTs /= NotRun
    /\ Len(sigParams) = 3
    /\ KeyRank(sigParams[1][1]) > KeyRank(sigParams[2][1])
    /\ KeyRank(sigParams[2][1]) > KeyRank(sigParams[3][1])

\* C3: the signature of generateSignature, of part_000 and of index.ts, is
\* the signature of the same object without its entries whose value is "".
C3_EmptyValuesIgnored ==
    /\ sigJs /= NotRun => sigJs = generateSignature(DropEmpty(sigParams), sigSecret)
    /\ sigTs /= NotRun => sigTs = generateSignatureTs(DropEmpty(sigParams), sigSecret)

\* C4: when the HTTP call of makeRequest, of part_000 and of index.ts, fails,
\* makeRequest rejects, with the exchange's error payload when there is a
\* response and with the transport error's message when there is none.
C4_FailureSurfaces ==
    \A h \in 1..Len(http) :
        (http[h].state = "failed" /\ h = Awaited(http[h].req)) =>
            LET result == reqs[http[h].req].result
            IN  /\ result.state = "rejected"
                /\ http[h].error.hasResponse =>
                      /\ result.error.hasResponse
                      /\ result.error.data = http[h].error.data
                /\ ~http[h].error.hasResponse =>
                      result.error.message = http[h].error.message

\* C5: no call is retried: every makeRequest invocation hands axios exactly
\* one request, failed or not; a non-bulk operation invokes makeRequest
\* exactly once; a bulk operation makes at most one call per listed entry.
C5_NoRetry ==
    /\ \A r \in 1..Len(reqs) : Cardinality(CallsOf(r)) = 1
    /\ (pc /= "idle" /\ entry.op \in NonBulkOps) => Len(reqs) = 1
    /\ (entry.op \in BulkOps /\ Len(reqs) > 1) =>
          /\ http[1].state = "ok"
          /\ \A r \in 2..Len(reqs) :
                \E i \in 1..Len(http[1].body.list) :
                    Get(reqs[r].params, "symbol") = http[1].body.list[i].symbol
          /\ \A i \in 1..Len(http[1].body.list) :
                LET e == http[1].body.list[i]
                    second == IF entry.op = "closeAllPositions"
                              THEN <<"positionSide", e.positionSide>>
                              ELSE <<"orderId", e.orderId>>
                IN  Cardinality({r \in 2..Len(reqs) :
                        Pairs(reqs[r].params) = {<<"symbol", e.symbol>>, second}}) <= 1

\* a non-bulk operation is over, its one call having failed
C5_Witness ==
    /\ pc = "done"
    /\ entry.op \in NonBulkOps
    /\ opResult.state = "rejected"
    /\ Len(http) = 1
    /\ http[1].state = "failed"

\* the close or cancel call that C6 expects for a listed entry
C6_Expected(op, e) ==
    IF op = "closeAllPositions"
    THEN [method |-> "POST", endpoint |-> "/openApi/swap/v2/trade/closePosition",
          params |-> {<<"symbol", e.symbol>>, <<"positionSide", e.positionSide>>}]
    ELSE [method |-> "POST", endpoint |-> "/openApi/swap/v2/trade/cancelOrder",
          params |-> {<<"symbol", e.symbol>>, <<"orderId", e.orderId>>}]

\* C6: once the list is fetched, closeAllPositions(symbol) has made exactly
\* one closePosition call, with the entry's symbol and positionSide, for each
\* listed position whose symbol equals the argument, or for every listed
\* position when the argument is omitted or "", and no other call; the same
\* for cancelAllOrders with cancelOrder(symbol, orderId).
C6_BulkDispatch ==
    (entry.op \in BulkOps /\ pc \in {"fanout", "done"} /\ http[1].state = "ok") =>
        LET list    == http[1].body.list
            all     == entry.args[1] \in {Undefined, EmptyString}
            made(e) == {r \in 2..Len(reqs) :
                          /\ reqs[r].method = C6_Expected(entry.op, e).method
                          /\ reqs[r].endpoint = C6_Expected(entry.op, e).endpoint
                          /\ Pairs(reqs[r].params) = C6_Expected(entry.op, e).params}
            wanted  == {i \in 1..Len(list) : all \/ list[i].symbol = entry.args[1]}
        IN  /\ \A i \in 1..Len(list) :
                  Cardinality(made(list[i])) = IF i \in wanted THEN 1 ELSE 0
            /\ Len(reqs) = 1 + Cardinality(wanted)
            /\ FanSet = 2..Len(reqs)

\* a bulk operation for one symbol has skipped a listed entry of another
C6_Witness ==
    /\ entry.op \in BulkOps
    /\ pc = "fanout"
    /\ entry.args[1] = Str("BTC-USDT")
    /\ Len(http[1].body.list) = 2
    /\ Len(fan) = 1

\* the error of the first fanned-out call that failed, by arrival
C7_FirstFailure ==
    LET failed == {j \in 1..Len(arrivals) :
                      http[arrivals[j]].req \in FanSet /\ http[arrivals[j]].state = "failed"}
        first  == CHOOSE j \in failed : \A k \in failed : j <= k
    IN  http[arrivals[first]].error

\* C7: a bulk operation resolves only if every call it fanned out resolved,
\* and then with their results in list order; if any of them rejects, the
\* operation rejects with the error of the first one to fail, with no
\* partial result, and no failed call is issued again.
C7_AllOrNothing ==
    (entry.op \in BulkOps /\ fan /= << >>) =>
        /\ opResult.state = "resolved" =>
              /\ \A i \in 1..Len(fan) : reqs[fan[i]].result.state = "resolved"
              /\ opResult.value.t = "array"
              /\ Len(opResult.value.items) = Len(fan)
              /\ \A i \in 1..Len(fan) : opResult.value.items[i] = http[Awaited(fan[i])].body
        /\ (\E i \in 1..Len(fan) : reqs[fan[i]].result.state = "rejected") =>
              /\ opResult.state = "rejected"
              /\ opResult.error = C7_FirstFailure
              /\ opResult.value = JUndefined
        /\ \A i \in 1..Len(fan) : Cardinality(CallsOf(fan[i])) = 1

\* two fanned-out calls have failed, in different ways
C7_Witness ==
    /\ entry.op \in BulkOps
    /\ opResult.state = "rejected"
    /\ \E i, j \in 1..Len(fan) :
          /\ reqs[fan[i]].result.state = "rejected"
          /\ reqs[fan[j]].result.state = "rejected"
          /\ reqs[fan[i]].result.error /= reqs[fan[j]].result.error

\* C8 as stated: a bulk operation has not completed, by resolving or by
\* rejecting, while a call it fanned out is still unsettled.
C8_WaitsForAllSettled ==
    (entry.op \in BulkOps /\ opResult.state /= "pending") =>
        \A i \in 1..Len(fan) : reqs[fan[i]].result.state /= "pending"

\* C8 as amended: a bulk operation does not resolve until every call it
\* fanned out has resolved, and it rejects as soon as the first of them
\* fails, whether or not others are still in flight.
C8_SettlesAtFirstFailure ==
    (entry.op \in BulkOps /\ fan /= << >>) =>
        /\ opResult.state = "resolved" =>
              \A i \in 1..Len(fan) : reqs[fan[i]].result.state = "resolved"
        /\ opResult.state = "rejected" <=>
              \E i \in 1..Len(fan) : reqs[fan[i]].result.state = "rejected"
        /\ opResult.state = "pending" <=>
              /\ \E i \in 1..Len(fan) : reqs[fan[i]].result.state = "pending"
              /\ \A i \in 1..Len(fan) : reqs[fan[i]].result.state /= "rejected"

\* a bulk operation has rejected while a call it fanned out is in flight
C8_Witness ==
    /\ entry.op \in BulkOps
    /\ opResult.state = "rejected"
    /\ \E i \in 1..Len(fan) :
          /\ reqs[fan[i]].result.state = "pending"
          /\ http[Awaited(fan[i])].state = "inflight"

\* the market orders the strategy has placed
C9_Orders == {r \in 1..Len(reqs) : reqs[r].endpoint = "/openApi/contract/v1/trade/order"}

\* exactly one order, a POST for the symbol, of size 0.01, on the given side
C9_OneOrder(side) ==
    /\ Cardinality(C9_Orders) = 1
    /\ Len(reqs) = 3
    /\ C9_Orders = {3}
    /\ reqs[3].method = "POST"
    /\ Get(reqs[3].params, "symbol") = entry.args[1]
    /\ Get(reqs[3].params, "side") = Str(side)
    /\ Get(reqs[3].params, "quantity") = Num("0.01")
    /\ Cardinality(CallsOf(3)) = 1

\* C9: once simpleTradingStrategy(symbol) has the price and the previous
\* close, it has placed exactly one market order of size 0.01, a BUY when the
\* price is greater and a SELL when it is less, and when they are equal it
\* has placed none and has returned null without an error.
C9_Strategy ==
    (entry.op = "simpleTradingStrategy" /\ Len(http) >= 2
        /\ http[1].state = "ok" /\ http[2].state = "ok") =>
        LET price == http[1].body.price
            close == http[2].body.price
        IN  /\ (price = "101" /\ close = "100") => C9_OneOrder("BUY")
            /\ (price = "100" /\ close = "101") => C9_OneOrder("SELL")
            /\ (price = close /\ price \in {"100", "101"}) =>
                  /\ C9_Orders = {}
                  /\ Len(reqs) = 2
                  /\ pc = "done"
                  /\ opResult = Resolved(JNull)
                  /\ unhandled = << >>
                  /\ entry.kind = "route" => httpRes = ResJson(JNull)

\* the strategy has found the price unchanged
C9_Witness ==
    /\ entry.op = "simpleTradingStrategy"
    /\ Len(http) = 2
    /\ http[1].state = "ok"
    /\ http[2].state = "ok"
    /\ http[1].body.price = "100"
    /\ http[2].body.price = "100"
    /\ opResult = Resolved(JNull)

\* C10: a route of part_000 whose exchange call succeeded has answered with
\* the exchange's JSON; one whose exchange call failed has answered through
\* errorMiddleware with the envelope {status: "error", statusCode, message},
\* statusCode being the error's statusCode or 500.
C10_RouteErrorEnvelope ==
    (entry.kind = "route" /\ pc = "done") =>
        /\ opResult.state = "resolved" => httpRes = ResJson(opResult.value)
        /\ opResult.state = "rejected" =>
              \E development \in BOOLEAN :
                  httpRes = errorMiddleware(opResult.error, development)


\* the order-creating operations
C14_OrderOps ==
    {"placeMarketOrder", "placeLimitOrder", "setStopLoss", "setTakeProfit", "setTrailingStop"}

\* the parameter names and the order type the operation table gives each
C14_Table(op) ==
    CASE op = "placeMarketOrder" ->
            [keys |-> {"symbol", "side", "type", "quantity"}, type |-> "MARKET"]
      [] op = "placeLimitOrder" ->
            [keys |-> {"symbol", "side", "type", "quantity", "price"}, type |-> "LIMIT"]
      [] op = "setStopLoss" ->
            [keys |-> {"symbol", "type", "stopPrice"}, type |-> "STOP_MARKET"]
      [] op = "setTakeProfit" ->
            [keys |-> {"symbol", "type", "stopPrice"}, type |-> "TAKE_PROFIT_MARKET"]
      [] op = "setTrailingStop" ->
            [keys |-> {"symbol", "type", "activationPrice", "callbackRate"},
             type |-> "TRAILING_STOP_MARKET"]

\* C14: every order-creating operation makes one POST whose caller-supplied
\* params are exactly the parameters of the operation table, the field type
\* holding the operation's order type: MARKET, LIMIT, STOP_MARKET,
\* TAKE_PROFIT_MARKET, TRAILING_STOP_MARKET; a quantity is sent as a number.
C14_OrderParams ==
    (entry.op \in C14_OrderOps /\ pc /= "idle") =>
        /\ Len(reqs) = 1
        /\ reqs[1].method = "POST"
        /\ KeySet(reqs[1].params) = C14_Table(entry.op).keys
        /\ Get(reqs[1].params, "type") = Str(C14_Table(entry.op).type)
        /\ HasKey(reqs[1].params, "quantity") =>
              Get(reqs[1].params, "quantity").type = "number"

\* C15: a request of part_000's makeRequest carries the caller's params, the
\* timestamp and the signature in the query string and has no body when the
\* method is GET, carries them in the body and has no query string when the
\* method is POST; the API key is in the X-BX-APIKEY header and is neither a
\* key nor a value of the parameters.
C15_Carrier ==
    \A h \in 1..Len(http) :
        LET r == reqs[http[h].req]
            c == http[h].config
            carried(slot) ==
                /\ slot.set
                /\ KeySet(slot.obj) = KeySet(r.params) \cup {"timestamp", "signature"}
        IN  r.file = "part_000" =>
              /\ r.method = "GET"  => carried(c.params) /\ ~c.data.set
              /\ r.method = "POST" => carried(c.data) /\ ~c.params.set
              /\ Pairs(c.headers) = {<<"X-BX-APIKEY", Str(API_KEY)>>}
              /\ \A kv \in Pairs(SentParams(h)) :
                    kv[1] \notin {"apiKey", "X-BX-APIKEY"} /\ kv[2] /= Str(API_KEY)

\* a GET with a query string and a POST with a body have been issued
C15_Witness ==
    \E g, h \in 1..Len(http) :
        /\ reqs[http[g].req].file = "part_000"
        /\ http[g].config.method = "GET"
        /\ http[g].config.params.set
        /\ reqs[http[h].req].file = "part_000"
        /\ http[h].config.method = "POST"
        /\ http[h].config.data.set

\* C16: in a bulk operation the list call has been answered before any close
\* or cancel call is issued; the close or cancel calls are all issued
\* together, none waiting for the answer to another; and when the operation
\* resolves its array has one entry per call issued, entry i being the
\* answer to the call for the i-th entry kept from the list, in whatever
\* order the answers arrived.
C16_FanOutConcurrent ==
    entry.op \in BulkOps =>
        /\ Len(http) > 1 => (http[1].state = "ok" /\ arrivals[1] = 1)
        /\ fan /= << >> =>
              /\ Len(http) = 1 + Len(fan)
              /\ \A i \in 1..Len(fan) : Awaited(fan[i]) = 1 + i
        /\ (fan /= << >> /\ opResult.state = "resolved") =>
              /\ Len(opResult.value.items) = Len(fan)
              /\ \A i \in 1..Len(fan) :
                    opResult.value.items[i] = http[1 + i].body

\* two calls were in flight together, the second was answered first, with
\* another answer than the first, and the operation has resolved
C16_Witness ==
    /\ entry.op \in BulkOps
    /\ Len(fan) = 2
    /\ arrivals = <<1, 3, 2>>
    /\ opResult.state = "resolved"
    /\ opResult.value.items[1] /= opResult.value.items[2]

\* the positions of the numeric arguments of a command
C11_Numeric(cmd) ==
    CASE cmd = "/market" -> {3}
      [] cmd = "/limit" -> {3, 4}
      [] cmd = "/trailingstop" -> {2, 3}
      [] cmd \in {"/sl", "/tp"} -> {2}
      [] OTHER -> {}

\* the words of the model that are numeric literals
C11_NumericLiteral(word) == word \in {"0.01", "5", "100", "101", "-1"}

\* a message C11 wants turned away: a required argument is missing, a
\* numeric argument is not a numeric literal, or a side is not one of the
\* values listed for it, in either case of letters
C11_Invalid(cmd, words) ==
    \/ \E i \in 1..Required(cmd) : Falsy(Destructure(words, i))
    \/ \E i \in C11_Numeric(cmd) : ~C11_NumericLiteral(Destructure(words, i).text)
    \/ /\ cmd \in {"/market", "/limit"}
       /\ toUpperCase(Destructure(words, 2).text) \notin {"BUY", "SELL"}
    \/ /\ cmd = "/close"
       /\ toUpperCase(Destructure(words, 2).text) \notin {"LONG", "SHORT"}

\* C11: a chat command whose message lacks a required argument, gives
\* something that is not a numeric literal (digits followed by other
\* characters included) for a numeric argument, or gives a side outside
\* BUY|SELL (/market, /limit) or LONG|SHORT (/close), is answered with a
\* usage or validation reply and makes no call to the exchange.
C11_ValidationPrecedesDispatch ==
    (entry.kind = "cmd" /\ C11_Invalid(entry.route, ctxMessage)) =>
        /\ reqs = << >>
        /\ http = << >>
        /\ Len(replies) = 1
        /\ replies[1].text \in {Usage(entry.route), "Side must be either BUY or SELL",
                                "Quantity must be a positive number"}

\* C12: when the operation a chat command handler awaits rejects with an
\* error, a failed list call of a bulk operation included, the handler has
\* caught it: it has replied "Error: " followed by the error's message, once,
\* it has completed, and no rejection has left it.
C12_ErrorReply ==
    (entry.kind = "cmd" /\ opResult.state = "rejected") =>
        /\ replies = <<ctxReply("Error: " \o opResult.error.message, JUndefined)>>
        /\ replies[1].text \in {"Error: Request failed with status code 400",
                                "Error: Network Error"}
        /\ pc = "done"
        /\ unhandled = << >>

\* the list call of /closeall has failed and the user was told so
C12_Witness ==
    /\ entry.kind = "cmd"
    /\ entry.route = "/closeall"
    /\ Len(http) = 1
    /\ http[1].state = "failed"
    /\ Len(replies) = 1
    /\ replies[1].text = "Error: Network Error"

\* the label each action command opens its reply with
C13_Label(cmd) ==
    CASE cmd = "/close" -> "Position closed:"
      [] cmd = "/cancel" -> "Order canceled:"
      [] cmd = "/closeall" -> "All positions closed:"
      [] cmd = "/cancelall" -> "All orders canceled:"
      [] cmd = "/trailingstop" -> "Trailing stop set:"
      [] cmd = "/sl" -> "Stop loss set:"
      [] cmd = "/tp" -> "Take profit set:"

\* C13: when the operation of /close, /cancel, /closeall, /cancelall,
\* /trailingstop, /sl or /tp has resolved, the handler's reply begins with
\* the command's label and was sent with parse mode Markdown.
C13_LabelAndMarkdown ==
    (/\ entry.kind = "cmd"
     /\ entry.route \in {"/close", "/cancel", "/closeall", "/cancelall",
                         "/trailingstop", "/sl", "/tp"}
     /\ opResult.state = "resolved") =>
        /\ Len(replies) = 1
        /\ replies[1].text = C13_Label(entry.route)
        /\ replies[1].extra = Str("Markdown")

\* C17: the request chat /positions makes has the method and the endpoint
\* of the request GET /positions makes, and the other way round; the same
\* for chat /balance and GET /balance.
C17_SameRequest ==
    /\ (entry.kind = "cmd" /\ entry.route \in {"/positions", "/balance"} /\ reqs /= << >>) =>
          LET c == OpCall(RouteOp("GET " \o entry.route), << >>)
          IN  reqs[1].method = c.method /\ reqs[1].endpoint = c.endpoint
    /\ (entry.kind = "route" /\ entry.route \in {"GET /positions", "GET /balance"}
            /\ reqs /= << >>) =>
          LET c == OpCall(CommandOp(IF entry.route = "GET /positions"
                                    THEN "/positions" ELSE "/balance"), << >>)
          IN  reqs[1].method = c.method /\ reqs[1].endpoint = c.endpoint

\* C18: a chat command handler has made no reply while the operation it
\* awaits is pending and exactly one reply from then on, whether it turned
\* the message away, the operation resolved or the operation rejected, and
\* whatever answers come in afterwards.
C18_OneReply ==
    entry.kind = "cmd" =>
        /\ Len(replies) <= 1
        /\ pc = "done" <=> Len(replies) = 1
        /\ (entry.op /= "" /\ opResult.state = "pending") => replies = << >>
        /\ (entry.op = "" \/ opResult.state /= "pending") => Len(replies) = 1

\* /closeall: both calls fanned out have failed, the second after the
\* handler had replied, and there is one reply
C18_Witness ==
    /\ entry.kind = "cmd"
    /\ entry.route = "/closeall"
    /\ Len(fan) = 2
    /\ InFlight = {}
    /\ \A i \in 1..2 : reqs[fan[i]].result.state = "rejected"
    /\ Len(replies) = 1

=============================================================================
